---------------------------- MODULE Spec2Model ----------------------------
(***************************************************************************)
(* A model of nats_ipc_sdk.core.IPCNode: nodes that register methods,      *)
(* call each other through the transport's request/reply primitive and     *)
(* exchange broadcasts.  The transport (nats-py on a NATS server) is the    *)
(* environment: subscriptions with a pending queue each, subject matching  *)
(* with wildcards, one reply inbox per request, a per-request timeout.     *)
(***************************************************************************)
EXTENDS Integers, Sequences, FiniteSets, TLC

VARIABLES
    nc,             \* nc[n]: IPCNode.nc, 0 for None, else an index of conns[n]
    methods,        \* methods[n]: IPCNode.methods, a dict in insertion order
    subscriptions,  \* subscriptions[n]: IPCNode.subscriptions, the list of Subscription objects
    conns,          \* conns[n]: the connections connect() made on n, each open or closed
    calls,          \* calls[n]: the call()s n issued, each with its outcome
    wire,           \* replies published to a reply inbox and not yet delivered
    bcasts,         \* every broadcast published, in order
    discExc,        \* discExc[n]: the exception the last disconnect() of n raised, "" for none
    connecting,     \* connecting[n]: where a connect() of n taken statement by statement is
    retry           \* the wrapper retry_decorator made of a function: its locals and its attempts

vars == <<nc, methods, subscriptions, conns, calls, wire, bcasts, discExc, connecting, retry>>

----------------------------------------------------------------------------
(* Bounds of the model *)

\* Connections made in all (SpecLife, Spec).
MaxConns == 2

\* Subscriptions made in all: MaxSubs in the specifications with traffic,
\* MaxLifeSubs in SpecLife and SpecInter, which have none or little.
MaxSubs == 2

MaxLifeSubs == 3

\* Calls issued in all: MaxCalls, and MaxConcurrent in SpecConc and SpecReg,
\* whose calls overlap.
MaxCalls == 1

MaxConcurrent == 2

\* Broadcasts published in all.
MaxBcasts == 1

\* Requests of the foreign client (SpecRaw, Spec).
MaxRaw == 1

----------------------------------------------------------------------------
(* Names, application values, handlers *)

\* The IPCNode objects. A name is a sequence of subject tokens: "add" is
\* <<"add">>, a dotted name has one token per part.
Nodes == {"a", "b"}

\* A client of the transport that is no IPCNode; calls[Ext] are its requests.
Ext == "ext"

Callers == Nodes \cup {Ext}

node_id(n) == <<n>>

NodeIds == {node_id(n) : n \in Nodes}

\* The method names nodes register, and one name no node registers.
MethodNames == {<<"add">>, <<"job">>}

MissingMethod == <<"missing">>

\* Channel names: broadcast publishes on literal ones; subscribe takes any
\* string, the transport's single-token wildcard included.
Channels == {<<"x">>, <<"y">>}

SubChannels == Channels \cup {<<"*">>}

\* Application values: two integers, a dict that has an "error" key, and a
\* function object (which pickle cannot serialize).
V1 == [type |-> "int", keys |-> {}, val |-> "1"]

V2 == [type |-> "int", keys |-> {}, val |-> "2"]

VErr == [type |-> "dict", keys |-> {"error"}, val |-> "1"]

VFn == [type |-> "function", keys |-> {}, val |-> "<lambda>"]

\* IPCNode.timeout: the default, 30 seconds.
DEFAULT_TIMEOUT == 30

\* The handlers applications register: echo (tests' echo), boom (raises),
\* get_fn (returns a function object), slow_echo (a coroutine function).
Handlers == {"echo", "boom", "get_fn", "slow_echo"}

NoHandler == "<none>"

\* The handlers defined with async def.
AsyncDef == {"slow_echo"}

\* A detection that takes no handler for a coroutine function.
iscoroutinefunction_never(h) == FALSE

\* asyncio.iscoroutinefunction(method)
iscoroutinefunction(h) == h \in AsyncDef

\* The coroutine object a call of an async def handler returns: a
\* computation that has not run yet (and that pickle cannot serialize).
Coroutine(h) == [type |-> "coroutine", keys |-> {}, val |-> h]

\* What a handler does with the arguments it is invoked with.
HandlerBody(h, args, kwargs) ==
    CASE h = "echo" -> [raised |-> FALSE, value |-> args[1]]
      [] h = "slow_echo" -> [raised |-> FALSE, value |-> args[1]]
      [] h = "get_fn" -> [raised |-> FALSE, value |-> VFn]
      [] h = "boom" -> [raised |-> TRUE, exc |-> [cls |-> "ValueError", msg |-> <<"bad">>, attrs |-> {}]]

\* method(*args, **kwargs) without await: an async def handler hands back
\* its coroutine object, any other handler runs to its end.
Invoke(h, args, kwargs) ==
    IF h \in AsyncDef THEN [raised |-> FALSE, value |-> Coroutine(h)]
    ELSE HandlerBody(h, args, kwargs)

\* str(e) of an exception built from one message.
ExcStr(e) == e.msg

----------------------------------------------------------------------------
(* The codec: pickle.dumps / pickle.loads *)

RECURSIVE Picklable(_)
Picklable(obj) ==
    IF "type" \in DOMAIN obj THEN obj.type \notin {"function", "coroutine"}
    ELSE IF "args" \in DOMAIN obj
         THEN /\ \A i \in 1..Len(obj.args) : Picklable(obj.args[i])
              /\ \A kv \in obj.kwargs : Picklable(kv[2])
    ELSE IF "result" \in DOMAIN obj THEN Picklable(obj.result)
    ELSE TRUE

\* pickle.dumps(obj): the bytes, for a picklable obj (it raises otherwise).
Dumps(obj) == [fmt |-> "pickle", obj |-> obj]

\* Bytes no pickle.dumps produced.
Garbage == [fmt |-> "junk"]

Loadable(bytes) == bytes.fmt = "pickle"

\* pickle.loads(bytes), for loadable bytes (it raises otherwise).
Loads(bytes) == bytes.obj

UnpicklingError == [cls |-> "pickle.UnpicklingError", msg |-> <<"invalid load key">>, attrs |-> {}]

----------------------------------------------------------------------------
(* Subjects *)

rpcSubject(target, method) == <<"ipc">> \o target \o method

broadcastSubject(channel) == <<"broadcast">> \o channel

\* The server's matching of a published subject against a subscription's:
\* token by token, "*" standing for any one token, a final ">" for one or more.
RECURSIVE SubjectMatches(_, _)
SubjectMatches(pattern, subject) ==
    IF pattern = <<>> THEN subject = <<>>
    ELSE IF subject = <<>> THEN FALSE
    ELSE IF Head(pattern) = ">" THEN Len(pattern) = 1
    ELSE /\ Head(pattern) = "*" \/ Head(pattern) = Head(subject)
         /\ SubjectMatches(Tail(pattern), Tail(subject))

----------------------------------------------------------------------------
(* Transport state *)

\* A subscription is named by its node and its place in the node's list.
SubIds == UNION {{<<n, i>> : i \in DOMAIN subscriptions[n]} : n \in Nodes}

Sub(id) == subscriptions[id[1]][id[2]]

TotalSubs == Len(subscriptions["a"]) + Len(subscriptions["b"])

TotalConns == Len(conns["a"]) + Len(conns["b"])

IsOpen(n, c) == c # 0 /\ ~conns[n][c].closed

\* A test that takes a node for connected as soon as it has a handle.
is_connected_has_handle(n) == nc[n] # 0

\* self.nc and self.nc.is_connected
is_connected(n) == IsOpen(n, nc[n])

\* A subscription the server still delivers to.
ActiveSub(n, sub) == ~sub.closed /\ IsOpen(n, sub.conn)

Active(id) == ActiveSub(id[1], Sub(id))

Matching(subject) == {id \in SubIds : Active(id) /\ SubjectMatches(Sub(id).subject, subject)}

\* nc.subscribe(subject, cb): the new Subscription.
NewSub(c, subject, cb) ==
    [conn |-> c, subject |-> subject, cb |-> cb, closed |-> FALSE,
     pending |-> <<>>, running |-> <<>>, got |-> <<>>, since |-> Len(bcasts)]

\* nc.publish(subject, data) with an optional reply subject: the Msg that
\* subscribers are handed.
Msg(subject, data, reply) == [subject |-> subject, data |-> data, reply |-> reply]

\* A server that does not hand a request back to the node that published it.
Route_no_echo(subject, msg) ==
    [n \in Nodes |->
        [i \in 1..Len(subscriptions[n]) |->
            IF /\ ActiveSub(n, subscriptions[n][i])
               /\ SubjectMatches(subscriptions[n][i].subject, subject)
               /\ msg.reply = <<>> \/ msg.reply[1] # n
            THEN [subscriptions[n][i] EXCEPT !.pending = Append(@, msg)]
            ELSE subscriptions[n][i]]]

\* The server routing one published message: it joins the pending queue of
\* every matching subscription.
Route(subject, msg) ==
    [n \in Nodes |->
        [i \in 1..Len(subscriptions[n]) |->
            IF /\ ActiveSub(n, subscriptions[n][i])
               /\ SubjectMatches(subscriptions[n][i].subject, subject)
            THEN [subscriptions[n][i] EXCEPT !.pending = Append(@, msg)]
            ELSE subscriptions[n][i]]]

----------------------------------------------------------------------------
(* The initial state: IPCNode.__init__ on every node *)

Init ==
    /\ nc = [n \in Nodes |-> 0]
    /\ methods = [n \in Nodes |-> <<>>]
    /\ subscriptions = [n \in Nodes |-> <<>>]
    /\ conns = [n \in Nodes |-> <<>>]
    /\ calls = [n \in Callers |-> <<>>]
    /\ wire = {}
    /\ bcasts = <<>>
    /\ discExc = [n \in Nodes |-> ""]
    /\ connecting = [n \in Nodes |-> [stage |-> "idle"]]
    /\ retry = [stage |-> "idle"]

----------------------------------------------------------------------------
(* The method registry *)

\* The (node, name, handler) registrations applications make.
Registrations ==
    {<<"a", <<"add">>, "echo">>, <<"a", <<"add">>, "boom">>,
     <<"a", <<"job">>, "slow_echo">>, <<"a", <<"job">>, "get_fn">>,
     <<"b", <<"add">>, "echo">>}

\* A registration under a name that contains the subject delimiter: "add.x".
DottedRegistrations == {<<"a", <<"add", "x">>, "echo">>}

Registered(n) == {methods[n][i][1] : i \in 1..Len(methods[n])}

\* self.methods[name]
Lookup(n, name) ==
    IF name \in Registered(n)
    THEN LET i == CHOOSE j \in 1..Len(methods[n]) : methods[n][j][1] = name
         IN  methods[n][i][2]
    ELSE NoHandler

\* A registry that keeps the first handler registered under a name.
Upsert_keep_first(reg, name, h) ==
    IF \E i \in 1..Len(reg) : reg[i][1] = name THEN reg ELSE Append(reg, <<name, h>>)

\* self.methods[name] = handler: a dict keeps a replaced key at its place.
Upsert(reg, name, h) ==
    IF \E i \in 1..Len(reg) : reg[i][1] = name
    THEN [i \in 1..Len(reg) |-> IF reg[i][1] = name THEN <<name, h>> ELSE reg[i]]
    ELSE Append(reg, <<name, h>>)

\* The subscription _subscribe_method makes: its callback closes over the
\* node and the method name.
subscribe_method(n, c, name) ==
    NewSub(c, rpcSubject(node_id(n), name), [kind |-> "handler", name |-> name])

\* The subscriptions connect() makes, one per registry entry, in dict order.
MethodSubs(n, c) == [i \in 1..Len(methods[n]) |-> subscribe_method(n, c, methods[n][i][1])]

----------------------------------------------------------------------------
(* connect, register, disconnect *)

connect(n) ==
    /\ conns' = [conns EXCEPT ![n] = Append(@, [closed |-> FALSE])]
    /\ nc' = [nc EXCEPT ![n] = Len(conns[n]) + 1]
    /\ subscriptions' = [subscriptions EXCEPT ![n] = @ \o MethodSubs(n, Len(conns[n]) + 1)]
    /\ discExc' = [discExc EXCEPT ![n] = ""]
    /\ UNCHANGED <<methods, calls, wire, bcasts, connecting, retry>>

\* connect() taken statement by statement, for what runs at its suspension
\* points. A register() during the await of nats.connect finds self.nc as it
\* was and has the effect of one before connect(). When nats.connect has
\* returned, self.nc is set and the loop over self.methods starts: the dict's
\* iterator notes the size of the dict, yields the first name, and
\* _subscribe_method suspends in nc.subscribe.
connect_start(n) ==
    LET c == Len(conns[n]) + 1
    IN  /\ nc[n] = 0
        /\ connecting[n].stage = "idle"
        /\ conns' = [conns EXCEPT ![n] = Append(@, [closed |-> FALSE])]
        /\ nc' = [nc EXCEPT ![n] = c]
        /\ IF methods[n] = <<>>
           THEN /\ connecting' = [connecting EXCEPT ![n] = [stage |-> "done"]]
                /\ UNCHANGED subscriptions
           ELSE /\ connecting' = [connecting EXCEPT ![n] =
                       [stage |-> "loop", conn |-> c, used |-> Len(methods[n]), pos |-> 2]]
                /\ subscriptions' = [subscriptions EXCEPT ![n] =
                       Append(@, subscribe_method(n, c, methods[n][1][1]))]
        /\ UNCHANGED <<methods, calls, wire, bcasts, discExc, retry>>

\* The loop of connect() goes on after a suspension: the iterator raises
\* RuntimeError (dictionary changed size during iteration) when the dict has
\* another size than it noted, ends the loop after the last name, and else
\* yields the next name, which is subscribed.
connect_next(n) ==
    LET it == connecting[n]
    IN  /\ it.stage = "loop"
        /\ IF Len(methods[n]) # it.used
           THEN /\ connecting' = [connecting EXCEPT ![n] = [stage |-> "failed", exc |-> "RuntimeError"]]
                /\ UNCHANGED subscriptions
           ELSE IF it.pos > Len(methods[n])
           THEN /\ connecting' = [connecting EXCEPT ![n] = [stage |-> "done"]]
                /\ UNCHANGED subscriptions
           ELSE /\ connecting' = [connecting EXCEPT ![n].pos = @ + 1]
                /\ subscriptions' = [subscriptions EXCEPT ![n] =
                       Append(@, subscribe_method(n, it.conn, methods[n][it.pos][1]))]
        /\ UNCHANGED <<nc, methods, conns, calls, wire, bcasts, discExc, retry>>

\* A register that only records the handler and never subscribes.
register_no_subscribe(n, name, h) ==
    /\ methods' = [methods EXCEPT ![n] = Upsert(@, name, h)]
    /\ UNCHANGED <<nc, subscriptions, conns, calls, wire, bcasts, discExc, connecting, retry>>

register(n, name, h) ==
    /\ methods' = [methods EXCEPT ![n] = Upsert(@, name, h)]
    /\ IF is_connected(n)
       THEN subscriptions' = [subscriptions EXCEPT ![n] = Append(@, subscribe_method(n, nc[n], name))]
       ELSE UNCHANGED subscriptions
    /\ UNCHANGED <<nc, conns, calls, wire, bcasts, discExc, connecting, retry>>

\* sub.unsubscribe(): what it raises, "" when it raises nothing.
UnsubscribeExc(n, sub) ==
    IF conns[n][sub.conn].closed THEN "ConnectionClosedError"
    ELSE IF sub.closed THEN "BadSubscriptionError"
    ELSE ""

\* A subscription the client stops: its task is cancelled, with the callback
\* it may be running and the messages it has not processed.
Stopped(sub) == [sub EXCEPT !.closed = TRUE, !.pending = <<>>, !.running = <<>>]

\* The loop of disconnect(): unsubscribe each tracked subscription in list
\* order, from place i on; the first exception ends the loop and leaves
\* disconnect().
RECURSIVE UnsubscribeAll(_, _, _)
UnsubscribeAll(n, list, i) ==
    IF i > Len(list) THEN [list |-> list, exc |-> ""]
    ELSE IF UnsubscribeExc(n, list[i]) # ""
         THEN [list |-> list, exc |-> UnsubscribeExc(n, list[i])]
    ELSE UnsubscribeAll(n, [list EXCEPT ![i] = Stopped(@)], i + 1)

\* nc.close(): the connection is closed and every subscription on it stops.
CloseSubs(list, c) ==
    [i \in 1..Len(list) |-> IF list[i].conn = c THEN Stopped(list[i]) ELSE list[i]]

disconnect(n) ==
    LET r == UnsubscribeAll(n, subscriptions[n], 1)
    IN  /\ IF r.exc = "" /\ nc[n] # 0
           THEN /\ subscriptions' = [subscriptions EXCEPT ![n] = CloseSubs(r.list, nc[n])]
                /\ conns' = [conns EXCEPT ![n][nc[n]].closed = TRUE]
           ELSE /\ subscriptions' = [subscriptions EXCEPT ![n] = r.list]
                /\ UNCHANGED conns
        /\ discExc' = [discExc EXCEPT ![n] = r.exc]
        /\ UNCHANGED <<nc, methods, calls, wire, bcasts, connecting, retry>>

----------------------------------------------------------------------------
(* subscribe, broadcast and the delivery of broadcasts *)

NoReply == <<>>

\* The payloads applications broadcast.
Payloads == {V1, VErr, VFn}

\* subscribe(channel, handler): on a node without an open connection the
\* transport call raises and nothing is tracked.
subscribe(n, channel) ==
    /\ IF is_connected(n)
       THEN subscriptions' = [subscriptions EXCEPT ![n] =
                Append(@, NewSub(nc[n], broadcastSubject(channel),
                                 [kind |-> "wrapper", name |-> channel]))]
       ELSE UNCHANGED subscriptions
    /\ UNCHANGED <<nc, methods, conns, calls, wire, bcasts, discExc, connecting, retry>>

\* broadcast(channel, data): pickle.dumps raises on an unpicklable payload,
\* publish raises without an open connection; neither publishes anything.
broadcast(n, channel, data) ==
    /\ IF is_connected(n) /\ Picklable(data)
       THEN /\ subscriptions' = Route(broadcastSubject(channel),
                                      Msg(broadcastSubject(channel), Dumps(data), NoReply))
            /\ bcasts' = Append(bcasts, [channel |-> channel, data |-> data])
       ELSE UNCHANGED <<subscriptions, bcasts>>
    /\ UNCHANGED <<nc, methods, conns, calls, wire, discExc, connecting, retry>>

\* A callback whose subscription ends with the first message it is given.
wrapper_once(id) ==
    LET sub == Sub(id)
        msg == Head(sub.pending)
    IN  /\ Active(id)
        /\ sub.cb.kind = "wrapper"
        /\ sub.pending # <<>>
        /\ subscriptions' = [subscriptions EXCEPT ![id[1]][id[2]] =
               [Stopped(@) EXCEPT !.got = IF Loadable(msg.data)
                                          THEN Append(@, [subject |-> msg.subject, data |-> Loads(msg.data)])
                                          ELSE @]]
        /\ UNCHANGED <<nc, methods, conns, calls, wire, bcasts, discExc, connecting, retry>>

\* A callback that reads the payload as a reply envelope: a dict with an
\* "error" key is taken for a failure and the handler is not invoked.
wrapper_envelope(id) ==
    LET sub == Sub(id)
        msg == Head(sub.pending)
    IN  /\ Active(id)
        /\ sub.cb.kind = "wrapper"
        /\ sub.pending # <<>>
        /\ subscriptions' = [subscriptions EXCEPT ![id[1]][id[2]] =
               [@ EXCEPT !.pending = Tail(@),
                         !.got = IF Loadable(msg.data) /\ "error" \notin Loads(msg.data).keys
                                 THEN Append(@, [subject |-> msg.subject, data |-> Loads(msg.data)])
                                 ELSE @]]
        /\ UNCHANGED <<nc, methods, conns, calls, wire, bcasts, discExc, connecting, retry>>

\* The subscription's task takes the next pending message and runs the
\* callback subscribe() made: decode, then invoke the handler, which appends
\* what it is given to a list (as tests' handle_message does); got keeps that
\* list, each value with the subject its message was published on.
wrapper(id) ==
    LET sub == Sub(id)
        msg == Head(sub.pending)
    IN  /\ Active(id)
        /\ sub.cb.kind = "wrapper"
        /\ sub.pending # <<>>
        /\ subscriptions' = [subscriptions EXCEPT ![id[1]][id[2]] =
               [@ EXCEPT !.pending = Tail(@),
                         !.got = IF Loadable(msg.data)
                                 THEN Append(@, [subject |-> msg.subject, data |-> Loads(msg.data)])
                                 ELSE @]]
        /\ UNCHANGED <<nc, methods, conns, calls, wire, bcasts, discExc, connecting, retry>>

----------------------------------------------------------------------------
(* call: the caller's side *)

\* Exceptions: the class, the message (its pieces), the attributes set.
Exc(cls, msg, attrs) == [cls |-> cls, msg |-> msg, attrs |-> attrs]

Returned(v) == [kind |-> "return", value |-> v]

Raised(e) == [kind |-> "raise", exc |-> e]

Pending == [kind |-> "pending"]

\* The transport's own failures of nc.request.
NatsTimeout == Exc("nats.errors.TimeoutError", <<"nats: timeout">>, {})

NoResponders == Exc("nats.errors.NoRespondersError", <<"nats: no responders available for request">>, {})

ConnectionClosed == Exc("nats.errors.ConnectionClosedError", <<"nats: connection closed">>, {})

NoneHasNoRequest == Exc("AttributeError", <<"'NoneType' object has no attribute 'request'">>, {})

PicklingError == Exc("pickle.PicklingError", <<"Can't pickle">>, {})

\* issubclass(cls, asyncio.TimeoutError): asyncio.TimeoutError is the builtin
\* TimeoutError, and the transport's TimeoutError derives from it.
IsAsyncioTimeout(e) == e.cls \in {"nats.errors.TimeoutError", "TimeoutError"}

\* The status message the server answers a request with when no
\* subscription matches its subject.
NoRespondersStatus == [fmt |-> "status", code |-> "503"]

\* One reply inbox for all the requests of a node.
shared_inbox(n, i) == <<n, 1>>

\* No response received (yet).
NoData == [fmt |-> "none"]

\* The reply inbox of call number i of node n: nc.request makes a new inbox
\* for each request.
Inbox(n, i) == <<n, i>>

\* A caller that also looks for an "error" key inside the returned value.
call_reply_deep(target, method, data) ==
    IF ~Loadable(data) THEN Raised(UnpicklingError)
    ELSE LET result == Loads(data)
         IN  IF "error" \in DOMAIN result
             THEN Raised(Exc("Exception", result.error, {}))
             ELSE IF "error" \in result.result.keys
                  THEN Raised(Exc("Exception", <<result.result.val>>, {}))
                  ELSE Returned(result.result)

\* The statements of call() after nc.request has returned a reply.
call_reply(target, method, data) ==
    IF ~Loadable(data) THEN Raised(UnpicklingError)
    ELSE LET result == Loads(data)
         IN  IF "error" \in DOMAIN result
             THEN Raised(Exc("Exception", result.error, {}))
             ELSE Returned(result.result)

\* The except clause of call(): what leaves call() when nc.request raised e.
call_except(target, method, e) ==
    IF IsAsyncioTimeout(e)
    THEN Raised(Exc("TimeoutError",
                    <<"Call to ">> \o target \o <<".">> \o method \o <<" timed out">>, {}))
    ELSE Raised(e)

\* The calls applications issue: caller, target, method, args, kwargs.
CallInputs ==
    {<<"b", <<"a">>, <<"add">>, <<V1>>, {}>>,
     <<"b", <<"a">>, <<"add">>, <<V2>>, {<<"z", V1>>}>>,
     <<"b", <<"a">>, <<"job">>, <<VErr>>, {}>>,
     <<"b", <<"a">>, MissingMethod, <<V1>>, {}>>,
     <<"a", <<"a">>, <<"add">>, <<V2>>, {}>>}

\* Calls at the edges of the interface: to the node id "a.add" for the method
\* "x", and call("a", "add", 1, timeout=2).
EdgeCalls ==
    {<<"b", <<"a", "add">>, <<"x">>, <<V1>>, {}>>,
     <<"b", <<"a">>, <<"add">>, <<V1>>, {<<"timeout", V2>>}>>}

\* The calls a node makes to its own methods (tests' self-call).
SelfCalls ==
    {<<"a", <<"a">>, <<"add">>, <<V2>>, {}>>,
     <<"a", <<"a">>, <<"job">>, <<V1>>, {}>>}

\* The number an int value stands for.
IntOf(v) == CASE v.val = "1" -> 1 [] v.val = "2" -> 2

\* The calls of node n that have ended with the TimeoutError of call().
TimedOut(n) ==
    {i \in DOMAIN calls[n] :
        calls[n][i].outcome = call_except(calls[n][i].target, calls[n][i].method, NatsTimeout)}

TotalCalls == Len(calls["a"]) + Len(calls["b"])

\* call(target, method, *args, **kwargs) up to the await of nc.request: the
\* request is pickled, then published with a fresh reply inbox and the
\* node's timeout (every node is made with the default). A failure before
\* the await ends the call at once. The record notes whether a call of the
\* node had timed out when this one was issued.
call(n, target, method, args, kwargs) ==
    LET request == [args |-> args, kwargs |-> kwargs]
        subject == rpcSubject(target, method)
        i == Len(calls[n]) + 1
        early == IF ~Picklable(request) THEN Raised(PicklingError)
                 ELSE IF nc[n] = 0 THEN call_except(target, method, NoneHasNoRequest)
                 ELSE IF ~is_connected(n) THEN call_except(target, method, ConnectionClosed)
                 ELSE Pending
        rec == [target |-> target, method |-> method, args |-> args, kwargs |-> kwargs,
                conn |-> nc[n], inbox |-> Inbox(n, i), outcome |-> early,
                timeout |-> DEFAULT_TIMEOUT, response |-> NoData, from |-> <<>>,
                inv |-> {}, after_timeout |-> TimedOut(n) # {}]
    IN  /\ calls' = [calls EXCEPT ![n] = Append(@, rec)]
        /\ IF early = Pending
           THEN /\ subscriptions' = Route(subject, Msg(subject, Dumps(request), Inbox(n, i)))
                /\ wire' = IF Matching(subject) = {}
                           THEN wire \cup {[to |-> Inbox(n, i), data |-> NoRespondersStatus,
                                            from |-> <<>>, req |-> <<n, i>>]}
                           ELSE wire
           ELSE UNCHANGED <<subscriptions, wire>>
        /\ UNCHANGED <<nc, methods, conns, bcasts, discExc, connecting, retry>>

Waiting(n, i) == calls[n][i].outcome = Pending

\* A call is named by its node and its place among the node's calls.
CallIds == UNION {{<<n, i>> : i \in DOMAIN calls[n]} : n \in Nodes}

\* A timeout that fails every call the node has in flight.
timeout_all(n, i) ==
    /\ Waiting(n, i)
    /\ calls' = [calls EXCEPT ![n] =
           [j \in DOMAIN calls[n] |->
               IF calls[n][j].outcome = Pending
               THEN [calls[n][j] EXCEPT
                        !.outcome = call_except(calls[n][j].target, calls[n][j].method, NatsTimeout)]
               ELSE calls[n][j]]]
    /\ UNCHANGED <<nc, methods, subscriptions, conns, wire, bcasts, discExc, connecting, retry>>

\* nc.request gives up after self.timeout seconds without a reply.
timeout(n, i) ==
    /\ Waiting(n, i)
    /\ calls' = [calls EXCEPT ![n][i].outcome = call_except(calls[n][i].target, calls[n][i].method, NatsTimeout)]
    /\ UNCHANGED <<nc, methods, subscriptions, conns, wire, bcasts, discExc, connecting, retry>>

\* A client that hands a reply to the call of its inbox whether or not the
\* call has ended.
deliver_reply_late(w) ==
    LET owners == {c \in CallIds :
                      /\ calls[c[1]][c[2]].inbox = w.to
                      /\ IsOpen(c[1], calls[c[1]][c[2]].conn)}
    IN  /\ w \in wire
        /\ wire' = wire \ {w}
        /\ IF owners = {}
           THEN UNCHANGED calls
           ELSE \E c \in owners :
                  LET rec == calls[c[1]][c[2]]
                  IN  calls' = [calls EXCEPT ![c[1]][c[2]] =
                          [rec EXCEPT !.from = w.req,
                                      !.response = w.data,
                                      !.outcome = IF w.data = NoRespondersStatus
                                                  THEN call_except(rec.target, rec.method, NoResponders)
                                                  ELSE call_reply(rec.target, rec.method, w.data)]]
        /\ UNCHANGED <<nc, methods, subscriptions, conns, bcasts, discExc, connecting, retry>>

\* A message published to a reply inbox reaches the client that owns the
\* inbox: it resolves the request waiting on that inbox, if there is one
\* and its connection is open, and is dropped otherwise.
deliver_reply(w) ==
    LET waiters == {c \in CallIds :
                       /\ Waiting(c[1], c[2])
                       /\ calls[c[1]][c[2]].inbox = w.to
                       /\ IsOpen(c[1], calls[c[1]][c[2]].conn)}
    IN  /\ w \in wire
        /\ wire' = wire \ {w}
        /\ IF waiters = {}
           THEN UNCHANGED calls
           ELSE \E c \in waiters :
                  LET rec == calls[c[1]][c[2]]
                  IN  calls' = [calls EXCEPT ![c[1]][c[2]] =
                          [rec EXCEPT !.from = w.req,
                                      !.response = w.data,
                                      !.outcome = IF w.data = NoRespondersStatus
                                                  THEN call_except(rec.target, rec.method, NoResponders)
                                                  ELSE call_reply(rec.target, rec.method, w.data)]]
        /\ UNCHANGED <<nc, methods, subscriptions, conns, bcasts, discExc, connecting, retry>>

----------------------------------------------------------------------------
(* Inbound dispatch: the callback _subscribe_method makes *)

\* A callback that invokes the handler without the keyword arguments.
handler_try_no_kwargs(n, name, data) ==
    IF ~Loadable(data) THEN [raised |-> TRUE, exc |-> UnpicklingError]
    ELSE IF Lookup(n, name) = NoHandler
         THEN [raised |-> TRUE, exc |-> [cls |-> "KeyError", msg |-> name, attrs |-> {}]]
    ELSE [raised |-> FALSE, request |-> [Loads(data) EXCEPT !.kwargs = {}],
          method |-> Lookup(n, name)]

\* The try block of the callback up to the invocation: the decoded request
\* and the handler looked up in the registry, or the exception raised.
handler_try(n, name, data) ==
    IF ~Loadable(data) THEN [raised |-> TRUE, exc |-> UnpicklingError]
    ELSE IF Lookup(n, name) = NoHandler
         THEN [raised |-> TRUE, exc |-> [cls |-> "KeyError", msg |-> name, attrs |-> {}]]
    ELSE [raised |-> FALSE, request |-> Loads(data), method |-> Lookup(n, name)]

\* The response the callback builds from what the handler did.
handler_response(r) ==
    IF r.raised THEN [error |-> ExcStr(r.exc)] ELSE [result |-> r.value]

\* A callback that answers only when the handler returned.
respond_results_only(id, msg, response) ==
    IF Picklable(response) /\ msg.reply # NoReply /\ "result" \in DOMAIN response
    THEN wire \cup {[to |-> msg.reply, data |-> Dumps(response), from |-> id, req |-> msg.reply]}
    ELSE wire

\* await msg.respond(pickle.dumps(response)): pickle.dumps is outside the
\* try block, so an unpicklable response leaves the callback with an
\* exception and nothing is published.
respond(id, msg, response) ==
    IF Picklable(response) /\ msg.reply # NoReply
    THEN wire \cup {[to |-> msg.reply, data |-> Dumps(response), from |-> id, req |-> msg.reply]}
    ELSE wire

\* The number of dispatches a subscription's callback has finished.
Dispatched(id) ==
    Cardinality(UNION {UNION {{d \in calls[k][i].inv : d.sub = id} : i \in DOMAIN calls[k]} :
                          k \in Callers})

\* The record of one finished dispatch, kept with the call whose request it
\* served: the subscription and the place of the dispatch among those the
\* subscription finished, the handler and what it was invoked with, what it
\* did, and whether a reply was published.
Noted(id, msg, h, request, r) ==
    [calls EXCEPT ![msg.reply[1]][msg.reply[2]].inv = @ \cup
        {[sub |-> id, seq |-> Dispatched(id) + 1, h |-> h,
          args |-> request.args, kwargs |-> request.kwargs,
          ret |-> r, replied |-> respond(id, msg, handler_response(r)) # wire]}]

NoRequest == [args |-> <<>>, kwargs |-> {}]

\* The subscription's task takes the next pending request and runs the
\* callback: an immediate handler runs to its end in this step, a coroutine
\* handler is started and awaited.
handler(id) ==
    LET sub == Sub(id)
        msg == Head(sub.pending)
        n == id[1]
        t == handler_try(n, sub.cb.name, msg.data)
    IN  /\ Active(id)
        /\ sub.cb.kind = "handler"
        /\ sub.pending # <<>>
        /\ sub.running = <<>>
        /\ IF t.raised
           THEN /\ subscriptions' = [subscriptions EXCEPT ![n][id[2]].pending = Tail(@)]
                /\ wire' = respond(id, msg, handler_response(t))
                /\ calls' = Noted(id, msg, NoHandler, NoRequest, t)
           ELSE IF iscoroutinefunction(t.method)
           THEN /\ subscriptions' = [subscriptions EXCEPT ![n][id[2]] =
                       [@ EXCEPT !.pending = Tail(@),
                                 !.running = <<[msg |-> msg, method |-> t.method]>>]]
                /\ UNCHANGED <<wire, calls>>
           ELSE LET r == Invoke(t.method, t.request.args, t.request.kwargs)
                IN  /\ subscriptions' = [subscriptions EXCEPT ![n][id[2]].pending = Tail(@)]
                    /\ wire' = respond(id, msg, handler_response(r))
                    /\ calls' = Noted(id, msg, t.method, t.request, r)
        /\ UNCHANGED <<nc, methods, conns, bcasts, discExc, connecting, retry>>

\* The awaited coroutine handler completes and the callback goes on to
\* build and send the response.
handler_resume(id) ==
    LET sub == Sub(id)
        run == Head(sub.running)
        request == Loads(run.msg.data)
        r == HandlerBody(run.method, request.args, request.kwargs)
    IN  /\ Active(id)
        /\ sub.running # <<>>
        /\ subscriptions' = [subscriptions EXCEPT ![id[1]][id[2]].running = <<>>]
        /\ wire' = respond(id, run.msg, handler_response(r))
        /\ calls' = Noted(id, run.msg, run.method, request, r)
        /\ UNCHANGED <<nc, methods, conns, bcasts, discExc, connecting, retry>>

----------------------------------------------------------------------------
(* The environment: a foreign client of the transport *)

\* A request whose bytes no pickle.dumps produced, published by a client
\* that is no IPCNode to the subject of a node's method, with a reply inbox.
raw_request(target, method) ==
    LET k == Len(calls[Ext]) + 1
        rec == [target |-> target, method |-> method, args |-> <<>>, kwargs |-> {},
                conn |-> 0, inbox |-> <<Ext, k>>, outcome |-> Pending,
                timeout |-> DEFAULT_TIMEOUT, response |-> NoData, from |-> <<>>,
                inv |-> {}, after_timeout |-> FALSE]
    IN  /\ Matching(rpcSubject(target, method)) # {}
        /\ calls' = [calls EXCEPT ![Ext] = Append(@, rec)]
        /\ subscriptions' = Route(rpcSubject(target, method),
                                  Msg(rpcSubject(target, method), Garbage, <<Ext, k>>))
        /\ UNCHANGED <<nc, methods, conns, wire, bcasts, discExc, connecting, retry>>

\* A responder that is no IPCNode answers the request of a waiting call
\* with bytes no pickle.dumps produced, once.
raw_reply(n, i) ==
    LET garbage == [to |-> calls[n][i].inbox, data |-> Garbage, from |-> <<Ext, 0>>,
                    req |-> <<n, i>>]
    IN  /\ Waiting(n, i)
        /\ IsOpen(n, calls[n][i].conn)
        /\ garbage \notin wire
        /\ wire' = wire \cup {garbage}
        /\ UNCHANGED <<nc, methods, subscriptions, conns, calls, bcasts, discExc, connecting, retry>>

----------------------------------------------------------------------------
(* utils.retry_decorator: a function retried with a growing delay *)

\* The largest max_retries a decoration is given.
MaxRetries == 2

\* Calls of the wrapper made in all (SpecRetry).
MaxWrapperCalls == 2

\* max_retries, delay and backoff of retry_decorator; they are not
\* validated, so a count below zero and a negative delay or multiplier are
\* among them.
RetryCounts == -1 .. MaxRetries

Delays == {-1, 0, 1}

Backoffs == {-1, 2}

\* The functions that are decorated: a plain one and an `async def`.
Decorated == {"flaky", "flaky_async"}

\* if asyncio.iscoroutinefunction(func): return async_wrapper, else sync_wrapper
wrapper_of(func) == IF func = "flaky_async" THEN "async_wrapper" ELSE "sync_wrapper"

\* What one invocation of the decorated function does: it returns a value
\* or raises.  KeyboardInterrupt is a BaseException that is no Exception.
AttemptOutcomes ==
    {[kind |-> "return", value |-> v] : v \in {V1, V2}}
        \cup {[kind |-> "raise", exc |-> e] : e \in {"ConnectionError", "TimeoutError", "KeyboardInterrupt"}}

\* except Exception as e: the clause catches Exception and its subclasses.
CaughtAsException(e) == e \notin {"KeyboardInterrupt", "CancelledError"}

NoResult == [kind |-> "none"]

\* retry_decorator(max_retries, delay, backoff)(func): the wrapper closes
\* over the three parameters and the function.
retry_decorator(max_retries, delay, backoff, func) ==
    /\ retry.stage = "idle"
    /\ retry' = [stage |-> "ready", max_retries |-> max_retries, delay |-> delay,
                 backoff |-> backoff, wrapper |-> wrapper_of(func), wrapper_calls |-> 0,
                 attempt |-> 0, current_delay |-> delay, last_exception |-> "None",
                 tried |-> <<>>, result |-> NoResult]
    /\ UNCHANGED <<nc, methods, subscriptions, conns, calls, wire, bcasts, discExc, connecting>>

\* A call of the wrapper, up to the first iteration of its loop:
\* current_delay = delay, last_exception = None, and range(max_retries + 1)
\* yields 0, or nothing at all when max_retries + 1 <= 0; then the loop is
\* over at once and `raise last_exception` raises None, a TypeError.
retry_call ==
    /\ retry.stage \in {"ready", "returned", "raised"}
    /\ retry.wrapper_calls < MaxWrapperCalls
    /\ retry' = [retry EXCEPT
           !.wrapper_calls = @ + 1,
           !.attempt = 0,
           !.current_delay = retry.delay,
           !.last_exception = "None",
           !.tried = <<>>,
           !.stage = IF retry.max_retries + 1 <= 0 THEN "raised" ELSE "loop",
           !.result = IF retry.max_retries + 1 <= 0
                      THEN [kind |-> "raise", exc |-> "TypeError"]
                      ELSE NoResult]
    /\ UNCHANGED <<nc, methods, subscriptions, conns, calls, wire, bcasts, discExc, connecting>>

\* One iteration too many: the loop runs over range(max_retries + 2).
retry_attempt_extra(o) ==
    /\ retry.stage = "loop"
    /\ o \in AttemptOutcomes
    /\ retry' =
         IF o.kind = "return"
         THEN [retry EXCEPT !.tried = Append(@, o), !.stage = "returned",
                            !.result = [kind |-> "return", value |-> o.value]]
         ELSE IF ~CaughtAsException(o.exc)
         THEN [retry EXCEPT !.tried = Append(@, o), !.stage = "raised",
                            !.result = [kind |-> "raise", exc |-> o.exc]]
         ELSE IF retry.attempt < retry.max_retries + 1
         THEN [retry EXCEPT !.tried = Append(@, o), !.last_exception = o.exc,
                            !.attempt = @ + 1,
                            !.current_delay = @ * retry.backoff]
         ELSE [retry EXCEPT !.tried = Append(@, o), !.last_exception = o.exc,
                            !.attempt = @ + 1, !.stage = "raised",
                            !.result = [kind |-> "raise", exc |-> o.exc]]
    /\ UNCHANGED <<nc, methods, subscriptions, conns, calls, wire, bcasts, discExc, connecting>>

\* One iteration of the loop: func is invoked, with outcome o.
\*   return func(*args, **kwargs) ends the wrapper with the value;
\*   an exception that `except Exception` does not catch leaves the wrapper;
\*   a caught one is kept in last_exception, and then
\*     attempt < max_retries: the wrapper sleeps current_delay.  time.sleep
\*       raises ValueError for a negative length, inside the except clause,
\*       and the wrapper is left with it; else current_delay *= backoff and
\*       the loop goes on.  In async_wrapper `await asyncio.sleep` suspends
\*       the wrapper, whatever the length.
\*     else the loop is over and `raise last_exception` follows.
retry_attempt(o) ==
    /\ retry.stage = "loop"
    /\ o \in AttemptOutcomes
    /\ retry' =
         IF o.kind = "return"
         THEN [retry EXCEPT !.tried = Append(@, o), !.stage = "returned",
                            !.result = [kind |-> "return", value |-> o.value]]
         ELSE IF ~CaughtAsException(o.exc)
         THEN [retry EXCEPT !.tried = Append(@, o), !.stage = "raised",
                            !.result = [kind |-> "raise", exc |-> o.exc]]
         ELSE IF retry.attempt < retry.max_retries
         THEN IF retry.wrapper = "async_wrapper"
              THEN [retry EXCEPT !.tried = Append(@, o), !.last_exception = o.exc,
                                 !.stage = "sleeping"]
              ELSE IF retry.current_delay < 0
              THEN [retry EXCEPT !.tried = Append(@, o), !.last_exception = o.exc,
                                 !.stage = "raised",
                                 !.result = [kind |-> "raise", exc |-> "ValueError"]]
              ELSE [retry EXCEPT !.tried = Append(@, o), !.last_exception = o.exc,
                                 !.attempt = @ + 1,
                                 !.current_delay = @ * retry.backoff]
         ELSE [retry EXCEPT !.tried = Append(@, o), !.last_exception = o.exc,
                            !.attempt = @ + 1, !.stage = "raised",
                            !.result = [kind |-> "raise", exc |-> o.exc]]
    /\ UNCHANGED <<nc, methods, subscriptions, conns, calls, wire, bcasts, discExc, connecting>>

\* asyncio.sleep(current_delay) returns in async_wrapper:
\* current_delay *= backoff, and the loop takes the next attempt.
retry_wake ==
    /\ retry.stage = "sleeping"
    /\ retry' = [retry EXCEPT !.stage = "loop", !.attempt = @ + 1,
                              !.current_delay = @ * retry.backoff]
    /\ UNCHANGED <<nc, methods, subscriptions, conns, calls, wire, bcasts, discExc, connecting>>

\* The task that runs async_wrapper is cancelled while it sleeps:
\* CancelledError is raised at the await and leaves the wrapper.
retry_cancel ==
    /\ retry.stage = "sleeping"
    /\ retry' = [retry EXCEPT !.stage = "raised",
                              !.result = [kind |-> "raise", exc |-> "CancelledError"]]
    /\ UNCHANGED <<nc, methods, subscriptions, conns, calls, wire, bcasts, discExc, connecting>>

----------------------------------------------------------------------------
(* Specifications *)

\* Every operation, within the bounds.
Next ==
    \/ \E n \in Nodes : TotalConns < MaxConns /\ TotalSubs + Len(methods[n]) <= MaxSubs /\ connect(n)
    \/ \E n \in Nodes : disconnect(n)
    \/ \E r \in Registrations : TotalSubs < MaxSubs /\ register(r[1], r[2], r[3])
    \/ \E n \in Nodes, ch \in SubChannels : TotalSubs < MaxSubs /\ subscribe(n, ch)
    \/ \E n \in Nodes, ch \in Channels, d \in Payloads : Len(bcasts) < MaxBcasts /\ broadcast(n, ch, d)
    \/ \E id \in SubIds : wrapper(id)
    \/ \E c \in CallInputs : TotalCalls < MaxCalls /\ call(c[1], c[2], c[3], c[4], c[5])
    \/ \E t \in NodeIds, m \in MethodNames : Len(calls[Ext]) < MaxRaw /\ raw_request(t, m)
    \/ \E c \in CallIds : timeout(c[1], c[2])
    \/ \E w \in wire : deliver_reply(w)
    \/ \E id \in SubIds : handler(id)
    \/ \E id \in SubIds : handler_resume(id)
    \/ \E m \in RetryCounts, d \in Delays, b \in Backoffs, f \in Decorated : retry_decorator(m, d, b, f)
    \/ retry_call
    \/ \E o \in AttemptOutcomes : retry_attempt(o)
    \/ retry_wake
    \/ retry_cancel

Spec == Init /\ [][Next]_vars

\* Remote calls: each node connects once; methods are registered before or
\* after that; calls are issued, served, answered and timed out.
NextRpc ==
    \/ \E n \in Nodes : nc[n] = 0 /\ TotalSubs + Len(methods[n]) <= MaxSubs /\ connect(n)
    \/ \E r \in Registrations : (is_connected(r[1]) => TotalSubs < MaxSubs) /\ register(r[1], r[2], r[3])
    \/ \E c \in CallInputs : TotalCalls < MaxCalls /\ call(c[1], c[2], c[3], c[4], c[5])
    \/ \E c \in CallIds : timeout(c[1], c[2])
    \/ \E w \in wire : deliver_reply(w)
    \/ \E id \in SubIds : handler(id)
    \/ \E id \in SubIds : handler_resume(id)

SpecRpc == Init /\ [][NextRpc]_vars

\* Overlapping calls: methods are registered before the node connects, and
\* several calls are in flight at once.
NextConc ==
    \/ \E n \in Nodes : nc[n] = 0 /\ connect(n)
    \/ \E r \in Registrations : ~is_connected(r[1]) /\ register(r[1], r[2], r[3])
    \/ \E c \in CallInputs : TotalCalls < MaxConcurrent /\ call(c[1], c[2], c[3], c[4], c[5])
    \/ \E c \in CallIds : timeout(c[1], c[2])
    \/ \E w \in wire : deliver_reply(w)
    \/ \E id \in SubIds : handler(id)
    \/ \E id \in SubIds : handler_resume(id)

SpecConc == Init /\ [][NextConc]_vars

\* Broadcasts: each node connects once, subscribes, broadcasts, disconnects.
NextBcast ==
    \/ \E n \in Nodes : nc[n] = 0 /\ connect(n)
    \/ \E n \in Nodes : disconnect(n)
    \/ \E n \in Nodes, ch \in SubChannels : TotalSubs < MaxSubs /\ subscribe(n, ch)
    \/ \E n \in Nodes, ch \in Channels, d \in Payloads : Len(bcasts) < MaxBcasts /\ broadcast(n, ch, d)
    \/ \E id \in SubIds : wrapper(id)

SpecBcast == Init /\ [][NextBcast]_vars

\* The life cycle: nodes connect, register, subscribe, disconnect and
\* connect again.
NextLife ==
    \/ \E n \in Nodes : TotalConns < MaxConns /\ TotalSubs + Len(methods[n]) <= MaxLifeSubs /\ connect(n)
    \/ \E n \in Nodes : disconnect(n)
    \/ \E r \in Registrations : (is_connected(r[1]) => TotalSubs < MaxLifeSubs) /\ register(r[1], r[2], r[3])
    \/ \E n \in Nodes, ch \in SubChannels : TotalSubs < MaxLifeSubs /\ subscribe(n, ch)

SpecLife == Init /\ [][NextLife]_vars

\* Re-registration: node a registers and re-registers its method job, before
\* and after it connects, while node b calls it.
NextReg ==
    \/ \E n \in Nodes : nc[n] = 0 /\ connect(n)
    \/ \E r \in Registrations :
          /\ r[1] = "a"
          /\ r[2] = <<"job">>
          /\ is_connected("a") => TotalSubs < MaxSubs
          /\ register(r[1], r[2], r[3])
    \/ \E c \in CallInputs :
          /\ c[1] = "b"
          /\ c[3] = <<"job">>
          /\ TotalCalls < MaxConcurrent
          /\ call(c[1], c[2], c[3], c[4], c[5])
    \/ \E c \in CallIds : timeout(c[1], c[2])
    \/ \E w \in wire : deliver_reply(w)
    \/ \E id \in SubIds : handler(id)
    \/ \E id \in SubIds : handler_resume(id)

SpecReg == Init /\ [][NextReg]_vars

\* The edges of the interface: a dotted method name, a call to a dotted node
\* id, a call with a timeout keyword.
NextEdge ==
    \/ \E n \in Nodes : nc[n] = 0 /\ connect(n)
    \/ \E r \in DottedRegistrations \cup {<<"a", <<"add">>, "echo">>} :
          /\ is_connected(r[1]) => TotalSubs < MaxSubs
          /\ register(r[1], r[2], r[3])
    \/ \E c \in EdgeCalls : TotalCalls < MaxCalls /\ call(c[1], c[2], c[3], c[4], c[5])
    \/ \E c \in CallIds : timeout(c[1], c[2])
    \/ \E w \in wire : deliver_reply(w)
    \/ \E id \in SubIds : handler(id)

SpecEdge == Init /\ [][NextEdge]_vars

\* Foreign clients: node a serves add, node b calls it, and a client that is
\* no IPCNode sends a request and answers b's request, both with bytes that
\* are no pickle.
NextRaw ==
    \/ \E n \in Nodes : nc[n] = 0 /\ connect(n)
    \/ \E r \in Registrations :
          /\ r[1] = "a"
          /\ r[2] = <<"add">>
          /\ ~is_connected("a")
          /\ register(r[1], r[2], r[3])
    \/ \E c \in CallInputs :
          /\ c[1] = "b"
          /\ c[3] = <<"add">>
          /\ TotalCalls < MaxCalls
          /\ call(c[1], c[2], c[3], c[4], c[5])
    \/ \E t \in NodeIds, m \in MethodNames : Len(calls[Ext]) < MaxRaw /\ raw_request(t, m)
    \/ \E c \in CallIds : raw_reply(c[1], c[2])
    \/ \E c \in CallIds : timeout(c[1], c[2])
    \/ \E w \in wire : deliver_reply(w)
    \/ \E id \in SubIds : handler(id)

SpecRaw == Init /\ [][NextRaw]_vars

\* Disconnecting under calls: node a serves add, node b calls it, and either
\* node disconnects at any moment.
NextDisc ==
    \/ \E n \in Nodes : nc[n] = 0 /\ connect(n)
    \/ \E n \in Nodes : disconnect(n)
    \/ \E r \in Registrations :
          /\ r[1] = "a"
          /\ r[2] = <<"add">>
          /\ nc["a"] = 0
          /\ register(r[1], r[2], r[3])
    \/ \E c \in CallInputs :
          /\ c[1] = "b"
          /\ c[3] = <<"add">>
          /\ TotalCalls < MaxCalls
          /\ call(c[1], c[2], c[3], c[4], c[5])
    \/ \E c \in CallIds : timeout(c[1], c[2])
    \/ \E w \in wire : deliver_reply(w)
    \/ \E id \in SubIds : handler(id)

SpecDisc == Init /\ [][NextDisc]_vars

\* The calls of node n that have ended.
Ended(n) == {i \in DOMAIN calls[n] : calls[n][i].outcome # Pending}

\* Self-calls: node a serves add and job, calls them itself, and broadcasts
\* on a channel it listens to once a call of its own has ended, as tests'
\* test_cluster_failover does.
NextSelf ==
    \/ nc["a"] = 0 /\ connect("a")
    \/ \E r \in {<<"a", <<"add">>, "echo">>, <<"a", <<"job">>, "slow_echo">>} :
          /\ TotalSubs < MaxSubs
          /\ r[2] \notin Registered("a")
          /\ register(r[1], r[2], r[3])
    \/ TotalSubs < MaxSubs /\ subscribe("a", <<"x">>)
    \/ \E c \in SelfCalls : TotalCalls < MaxCalls /\ call(c[1], c[2], c[3], c[4], c[5])
    \/ \E c \in CallIds : timeout(c[1], c[2])
    \/ \E w \in wire : deliver_reply(w)
    \/ \E id \in SubIds : handler(id)
    \/ \E id \in SubIds : handler_resume(id)
    \/ Ended("a") # {} /\ Len(bcasts) < MaxBcasts /\ broadcast("a", <<"x">>, V1)
    \/ \E id \in SubIds : wrapper(id)

\* The event loop runs every task that is ready: the task of a subscription
\* of the serving node with a request pending, a suspended handler whose
\* wait is over, and the reader that hands a reply to its request. Nothing
\* makes a timeout happen.
SpecSelf ==
    /\ Init
    /\ [][NextSelf]_vars
    /\ \A k \in 1..MaxSubs :
          /\ WF_vars(<<"a", k>> \in SubIds /\ handler(<<"a", k>>))
          /\ WF_vars(<<"a", k>> \in SubIds /\ handler_resume(<<"a", k>>))
    /\ WF_vars(\E w \in wire : deliver_reply(w))

\* Interleaved registration: connect() is taken statement by statement, and
\* register() runs before it, at its suspension points and while requests
\* are served. Each name is registered once.
NextInter ==
    \/ \E n \in Nodes : connect_start(n)
    \/ \E n \in Nodes : connect_next(n)
    \/ \E r \in {<<"a", <<"add">>, "echo">>, <<"a", <<"job">>, "slow_echo">>} :
          /\ is_connected(r[1]) => TotalSubs < MaxLifeSubs
          /\ r[2] \notin Registered(r[1])
          /\ register(r[1], r[2], r[3])
    \/ \E c \in CallInputs :
          /\ c[1] = "b"
          /\ c[3] \in MethodNames
          /\ TotalCalls < MaxCalls
          /\ call(c[1], c[2], c[3], c[4], c[5])
    \/ \E c \in CallIds : timeout(c[1], c[2])
    \/ \E w \in wire : deliver_reply(w)
    \/ \E id \in SubIds : handler(id)
    \/ \E id \in SubIds : handler_resume(id)

SpecInter == Init /\ [][NextInter]_vars

\* The operations a node is asked for in SpecClosed.
ClosedRegistrations == {<<"a", <<"add">>, "echo">>}

ClosedCalls == {<<"a", <<"a">>, <<"add">>, <<V2>>, {}>>}

\* Without a connection: node a connects once and disconnects, and is asked
\* to register, subscribe, broadcast and call before, between and after.
NextClosed ==
    \/ nc["a"] = 0 /\ connect("a")
    \/ disconnect("a")
    \/ \E r \in ClosedRegistrations :
          /\ is_connected(r[1]) => TotalSubs < MaxSubs
          /\ register(r[1], r[2], r[3])
    \/ TotalSubs < MaxSubs /\ subscribe("a", <<"x">>)
    \/ Len(bcasts) < MaxBcasts /\ broadcast("a", <<"x">>, V1)
    \/ \E id \in SubIds : wrapper(id)
    \/ \E c \in ClosedCalls : TotalCalls < MaxCalls /\ call(c[1], c[2], c[3], c[4], c[5])
    \/ \E c \in CallIds : timeout(c[1], c[2])
    \/ \E w \in wire : deliver_reply(w)
    \/ \E id \in SubIds : handler(id)

SpecClosed == Init /\ [][NextClosed]_vars

\* Peers: node a serves add and job and broadcasts, node b calls a's methods
\* and subscribes once to the broadcasts.
NextPeer ==
    \/ \E n \in Nodes : nc[n] = 0 /\ connect(n)
    \/ \E r \in {<<"a", <<"add">>, "echo">>, <<"a", <<"job">>, "slow_echo">>} :
          /\ ~is_connected(r[1])
          /\ Len(methods[r[1]]) < MaxSubs
          /\ register(r[1], r[2], r[3])
    \/ subscriptions["b"] = <<>> /\ subscribe("b", <<"x">>)
    \/ \E c \in CallInputs :
          /\ c[1] = "b"
          /\ c[3] \in MethodNames
          /\ TotalCalls < MaxCalls
          /\ call(c[1], c[2], c[3], c[4], c[5])
    \/ Len(bcasts) < MaxBcasts /\ broadcast("a", <<"x">>, V1)
    \/ \E c \in CallIds : timeout(c[1], c[2])
    \/ \E w \in wire : deliver_reply(w)
    \/ \E id \in SubIds : handler(id)
    \/ \E id \in SubIds : handler_resume(id)
    \/ \E id \in SubIds : wrapper(id)

SpecPeer == Init /\ [][NextPeer]_vars

\* A decorated function: one decoration, calls of its wrapper, and attempts
\* with every outcome.
NextRetry ==
    \/ \E m \in RetryCounts, d \in Delays, b \in Backoffs, f \in Decorated : retry_decorator(m, d, b, f)
    \/ retry_call
    \/ \E o \in AttemptOutcomes : retry_attempt(o)
    \/ retry_wake
    \/ retry_cancel

SpecRetry == Init /\ [][NextRetry]_vars

----------------------------------------------------------------------------
(* Remote calls: properties under SpecRpc *)

CexC2 ==
    \A c \in CallIds :
        LET rec == calls[c[1]][c[2]]
        IN  \A d \in rec.inv :
                (/\ d.h # NoHandler
                 /\ d.ret.raised
                 /\ rec.from = c
                 /\ rec.inv = {d})
                    => /\ rec.outcome.kind = "raise"
                       /\ rec.outcome.exc.cls = "nats_ipc_sdk.exceptions.RemoteError"
                       /\ {<<"target", rec.target>>, <<"method", rec.method>>,
                           <<"error", d.ret.exc.msg>>} \subseteq rec.outcome.exc.attrs

\* C3: every dispatch of a request that has finished, whether the handler
\* returned, raised or was absent from the registry, published a reply.
CexC3 ==
    \A c \in CallIds :
        \A d \in calls[c[1]][c[2]].inv : d.replied

\* C5: a call issued on an open connection to a connected target, for a
\* method name the target never registered, fails with the SDK's
\* MethodNotFoundError naming the method.
CexC5 ==
    \A c \in CallIds :
        LET rec == calls[c[1]][c[2]]
        IN  (/\ rec.method = MissingMethod
             /\ rec.conn # 0
             /\ \E n \in Nodes : node_id(n) = rec.target /\ is_connected(n)
             /\ rec.outcome # Pending)
                => /\ rec.outcome.kind = "raise"
                   /\ rec.outcome.exc.cls = "nats_ipc_sdk.exceptions.MethodNotFoundError"
                   /\ <<"method", rec.method>> \in rec.outcome.exc.attrs

\* C6: a call that got no reply within the node's timeout fails with the
\* SDK's TimeoutError carrying the target, the method and the timeout value.
CexC6 ==
    \A c \in CallIds :
        LET rec == calls[c[1]][c[2]]
        IN  rec.outcome = call_except(rec.target, rec.method, NatsTimeout)
                => /\ rec.outcome.exc.cls = "nats_ipc_sdk.exceptions.TimeoutError"
                   /\ {<<"target", rec.target>>, <<"method", rec.method>>,
                       <<"timeout", DEFAULT_TIMEOUT>>} \subseteq rec.outcome.exc.attrs

----------------------------------------------------------------------------
(* Overlapping calls: properties under SpecConc *)

\* C4: whatever calls are in flight at the same time and in whatever order
\* their replies arrive, a call resolved by a reply is resolved by the reply
\* published for its own request, and what it returns (or the error text it
\* fails with) is what the target's handler for its method computes from its
\* own arguments.
InvC4 ==
    \A c \in CallIds :
        LET rec == calls[c[1]][c[2]]
            t == CHOOSE n \in Nodes : node_id(n) = rec.target
            r == HandlerBody(Lookup(t, rec.method), rec.args, rec.kwargs)
        IN  /\ rec.from # <<>> => rec.from = c
            /\ rec.outcome.kind = "return"
                   => ~r.raised /\ rec.outcome.value = r.value
            /\ (rec.outcome.kind = "raise" /\ rec.outcome.exc.cls = "Exception")
                   => r.raised /\ rec.outcome.exc.msg = ExcStr(r.exc)

\* C4's case: two calls of one node with different arguments are in flight
\* together, the later one has returned its own result and the reply of the
\* earlier one is still on its way.
WitC4 ==
    \E n \in Nodes : \E i, j \in DOMAIN calls[n] :
        /\ i < j
        /\ calls[n][i].args # calls[n][j].args
        /\ calls[n][i].outcome = Pending
        /\ \E w \in wire : w.to = calls[n][i].inbox /\ w.from # <<>>
        /\ calls[n][j].outcome = Returned(calls[n][j].args[1])

----------------------------------------------------------------------------
(* Broadcasts: properties under SpecBcast *)

\* C7: the handler of a subscription made for one channel name is invoked
\* only by broadcasts published on that channel name, whatever channel names
\* subscribe accepted.
CexC7 ==
    \A id \in SubIds :
        Sub(id).cb.kind = "wrapper"
            => \A k \in DOMAIN Sub(id).got :
                   Sub(id).got[k].subject = broadcastSubject(Sub(id).cb.name)

\* C8: for every active subscription, the payloads its handler was invoked
\* with, followed by those still queued for it, are exactly the payloads of
\* the broadcasts published since it was made on the channels its subject
\* matches (for a literal channel name: on that channel), each once, in
\* order and unmodified, a dict with an "error" key included.
InvC8 ==
    \A id \in SubIds :
        LET sub == Sub(id)
            mine(b) == SubjectMatches(sub.subject, broadcastSubject(b.channel))
            sent == SelectSeq(SubSeq(bcasts, sub.since + 1, Len(bcasts)), mine)
            queued == [k \in DOMAIN sub.pending |-> Loads(sub.pending[k].data)]
            given == [k \in DOMAIN sub.got |-> sub.got[k].data]
        IN  (Active(id) /\ sub.cb.kind = "wrapper")
                => given \o queued = [k \in DOMAIN sent |-> sent[k].data]

\* C8's case: the handler of a subscription to a literal channel name was
\* invoked with a broadcast dict that has an "error" key.
WitC8 ==
    \E id \in SubIds :
        /\ Active(id)
        /\ Sub(id).cb.kind = "wrapper"
        /\ Sub(id).cb.name \in Channels
        /\ Sub(id).got # <<>>
        /\ Sub(id).got[Len(Sub(id).got)].data = VErr

----------------------------------------------------------------------------
(* The life cycle: properties under SpecLife *)

\* C9: in every sequence of connect, register, subscribe and disconnect,
\* once a disconnect() of a node is over and the node has not connected
\* again, no subscription the node made, for a method or for a channel, is
\* active.
CexC9 ==
    \A n \in Nodes :
        (discExc[n] # "" \/ (nc[n] # 0 /\ ~is_connected(n)))
            => \A i \in DOMAIN subscriptions[n] : ~ActiveSub(n, subscriptions[n][i])

\* C10: in every sequence of connect, register, subscribe and disconnect, a
\* disconnect() of a node whose current connection is open raises nothing
\* and closes that connection: no node is left connected by a disconnect()
\* that raised.
CexC10 ==
    \A n \in Nodes : is_connected(n) => discExc[n] = ""

----------------------------------------------------------------------------
(* Re-registration: properties under SpecReg *)

\* C12: a register(name, h) step leaves h as the handler the registry holds
\* for name, and every step in which a subscription's callback takes a
\* decodable request invokes the handler the registry holds for the
\* callback's name at that moment. So a request dispatched after
\* register(name, h2) has returned is served by h2, never by a handler h2
\* replaced.
PropC12 ==
    [][/\ \A r \in Registrations :
             register(r[1], r[2], r[3]) => Lookup(r[1], r[2])' = r[3]
       /\ \A id \in SubIds :
             LET sub == Sub(id)
                 after == subscriptions'[id[1]][id[2]]
                 msg == Head(sub.pending)
                 h == Lookup(id[1], sub.cb.name)
             IN  (/\ sub.cb.kind = "handler"
                  /\ Active(id)
                  /\ sub.pending # <<>>
                  /\ after.pending = Tail(sub.pending)
                  /\ ~after.closed
                  /\ Loadable(msg.data))
                     => \/ after.running = <<[msg |-> msg, method |-> h]>>
                        \/ \E d \in calls'[msg.reply[1]][msg.reply[2]].inv :
                              /\ d \notin calls[msg.reply[1]][msg.reply[2]].inv
                              /\ d.sub = id
                              /\ d.h = h]_vars

\* C12's case: a method of node a was served by slow_echo for an earlier
\* call, which returned; it was registered again with get_fn, and a later
\* call was served by get_fn alone.
WitC12 ==
    \E i, j \in DOMAIN calls["b"] :
        /\ i < j
        /\ calls["b"][i].method = calls["b"][j].method
        /\ \E d \in calls["b"][i].inv : d.h = "slow_echo"
        /\ calls["b"][i].outcome.kind = "return"
        /\ calls["b"][j].inv # {}
        /\ \A d \in calls["b"][j].inv : d.h = "get_fn"
        /\ Lookup("a", calls["b"][j].method) = "get_fn"

----------------------------------------------------------------------------
(* Names and options: properties under SpecEdge *)

\* C13: register with a name that contains the subject delimiter is
\* rejected: no such name ever enters a registry and no subscription is ever
\* made for one.
CexC13 ==
    \A n \in Nodes :
        /\ \A name \in Registered(n) : Len(name) = 1
        /\ \A i \in DOMAIN subscriptions[n] :
               subscriptions[n][i].cb.kind = "handler" => Len(subscriptions[n][i].cb.name) = 1

\* C14: a call(target, method) is only ever served by the handler registered
\* as method on the node whose id is target.
CexC14 ==
    \A c \in CallIds :
        \A d \in calls[c[1]][c[2]].inv :
            /\ node_id(d.sub[1]) = calls[c[1]][c[2]].target
            /\ Sub(d.sub).cb.name = calls[c[1]][c[2]].method

\* C16: a call given a timeout keyword, once it has issued its transport
\* request, has applied that timeout to the request and does not forward the
\* keyword to the remote handler.
CexC16 ==
    \A c \in CallIds :
        LET rec == calls[c[1]][c[2]]
        IN  \A kv \in rec.kwargs :
                (kv[1] = "timeout" /\ rec.conn # 0)
                    => /\ rec.timeout = IntOf(kv[2])
                       /\ \A d \in rec.inv : \A a \in d.kwargs : a[1] # "timeout"

----------------------------------------------------------------------------
(* Foreign clients: properties under SpecRaw *)

\* C15: a call that received reply bytes which cannot be decoded fails with
\* the SDK's SerializationError.
CexC15 ==
    \A c \in CallIds :
        LET rec == calls[c[1]][c[2]]
        IN  (/\ rec.response # NoData
             /\ rec.response # NoRespondersStatus
             /\ ~Loadable(rec.response))
                => /\ rec.outcome.kind = "raise"
                   /\ rec.outcome.exc.cls = "nats_ipc_sdk.exceptions.SerializationError"

----------------------------------------------------------------------------
(* Disconnecting under calls: properties under SpecDisc *)

\* C17: a call that was still awaiting its reply when its node's
\* disconnect() closed the connection under it ends, whenever it ends, with
\* the SDK's ConnectionError.
CexC17 ==
    [][\A c \in CallIds :
           LET rec == calls[c[1]][c[2]]
               after == calls'[c[1]][c[2]]
           IN  (/\ rec.outcome = Pending
                /\ rec.conn # 0
                /\ conns[c[1]][rec.conn].closed
                /\ after.outcome # Pending)
                   => /\ after.outcome.kind = "raise"
                      /\ after.outcome.exc.cls = "nats_ipc_sdk.exceptions.ConnectionError"]_vars

----------------------------------------------------------------------------
(* Timeouts among overlapping calls: properties under SpecConc *)

\* C18: the step in which one call times out changes the outcome of that
\* call and nothing else: every other call of every node, the registries,
\* the tracked subscriptions and the connection handles are as before; and a
\* call issued on a connected node after calls of that node have timed out
\* issues its request as any other call does.
PropC18 ==
    [][/\ \A c \in CallIds :
             LET rec == calls[c[1]][c[2]]
                 timed_out == call_except(rec.target, rec.method, NatsTimeout)
             IN  (rec.outcome = Pending /\ calls'[c[1]][c[2]].outcome = timed_out)
                     => /\ calls' = [calls EXCEPT ![c[1]][c[2]].outcome = timed_out]
                        /\ UNCHANGED <<nc, methods, subscriptions, conns>>
       /\ \A n \in Nodes :
             (/\ Len(calls'[n]) = Len(calls[n]) + 1
              /\ TimedOut(n) # {}
              /\ is_connected(n))
                 => LET new == calls'[n][Len(calls[n]) + 1]
                    IN  /\ new.outcome = Pending
                        /\ new.conn = nc[n]
                        /\ \A id \in Matching(rpcSubject(new.target, new.method)) :
                               /\ subscriptions'[id[1]][id[2]].pending # <<>>
                               /\ Loads(subscriptions'[id[1]][id[2]].pending[
                                        Len(subscriptions'[id[1]][id[2]].pending)].data)
                                     = [args |-> new.args, kwargs |-> new.kwargs]]_vars

\* C18's case: a call of a node timed out, and a call the node issued after
\* that returned its result.
WitC18 ==
    \E n \in Nodes : \E i, j \in DOMAIN calls[n] :
        /\ i < j
        /\ i \in TimedOut(n)
        /\ TimedOut(n) = {i}
        /\ calls[n][j].after_timeout
        /\ calls[n][j].outcome = Returned(calls[n][j].args[1])

----------------------------------------------------------------------------
(* Response envelopes: properties under SpecRpc *)

\* The fields of the envelope in the bytes of a reply.
EnvelopeFields(data) == DOMAIN Loads(data)

\* C20: every reply a subscription's callback has published, in flight or
\* received by a call, is an envelope with exactly one of the fields "result"
\* and "error"; and a call that received the reply to a dispatch in which the
\* handler returned a mapping with an "error" key has returned that mapping.
InvC20 ==
    /\ \A w \in wire :
          w.from \in SubIds => /\ Loadable(w.data)
                               /\ EnvelopeFields(w.data) \in {{"result"}, {"error"}}
    /\ \A c \in CallIds :
          LET rec == calls[c[1]][c[2]]
          IN  /\ Loadable(rec.response)
                    => EnvelopeFields(rec.response) \in {{"result"}, {"error"}}
              /\ \A d \in rec.inv :
                    (/\ ~d.ret.raised
                     /\ "error" \in d.ret.value.keys
                     /\ rec.response = Dumps(handler_response(d.ret)))
                        => rec.outcome = Returned(d.ret.value)

\* C20's case: a handler returned the mapping with the "error" key, its reply
\* reached the call, and the call has ended.
WitC20 ==
    \E c \in CallIds :
        LET rec == calls[c[1]][c[2]]
        IN  /\ rec.outcome # Pending
            /\ rec.response = Dumps([result |-> VErr])
            /\ \E d \in rec.inv : ~d.ret.raised /\ d.ret.value = VErr /\ d.replied

----------------------------------------------------------------------------
(* Immediate and suspending handlers: properties under SpecRpc *)

\* C21: while a subscription awaits a suspending handler, no reply to the
\* request it is serving has been published by it; every finished dispatch
\* of echo (immediate) or slow_echo (suspending) ended with the value both
\* compute, the first argument, and published it as the result, which the
\* call that received it returned; and no reply published and no value
\* returned is a coroutine object.
InvC21 ==
    /\ \A id \in SubIds :
          Sub(id).running # <<>>
              => LET run == Head(Sub(id).running)
                 IN  /\ iscoroutinefunction(run.method)
                     /\ \A w \in wire : ~(w.from = id /\ w.to = run.msg.reply)
                     /\ \A c \in CallIds :
                            calls[c[1]][c[2]].inbox = run.msg.reply
                                => \A d \in calls[c[1]][c[2]].inv : d.sub # id
    /\ \A w \in wire :
          (Loadable(w.data) /\ "result" \in EnvelopeFields(w.data))
              => Loads(w.data).result.type # "coroutine"
    /\ \A c \in CallIds :
          LET rec == calls[c[1]][c[2]]
          IN  /\ rec.outcome.kind = "return" => rec.outcome.value.type # "coroutine"
              /\ \A d \in rec.inv :
                    d.h \in {"echo", "slow_echo"}
                        => /\ d.ret = [raised |-> FALSE, value |-> d.args[1]]
                           /\ d.replied
                           /\ rec.response = Dumps(handler_response(d.ret))
                                  => rec.outcome = Returned(d.args[1])

\* C21's case: a call served by the suspending handler has returned the
\* handler's final value.
WitC21 ==
    \E c \in CallIds :
        LET rec == calls[c[1]][c[2]]
        IN  /\ rec.outcome = Returned(rec.args[1])
            /\ \E d \in rec.inv : d.h = "slow_echo" /\ d.replied

----------------------------------------------------------------------------
(* Self-calls: properties under SpecSelf *)

\* C22: a call a node makes to a method it serves itself does not stay
\* pending: it always ends; when it ends by a reply of the node, it returns
\* what the handler computes from its arguments; and a broadcast the
\* node makes after a call of its own has ended reaches every active
\* subscription to the channel.
PropC22 ==
    /\ \A i \in 1..MaxCalls :
          (i \in DOMAIN calls["a"] /\ calls["a"][i].outcome = Pending)
              ~> (i \in DOMAIN calls["a"] /\ calls["a"][i].outcome # Pending)
    /\ [](\A i \in DOMAIN calls["a"] :
            LET rec == calls["a"][i]
            IN  (i \in Ended("a") /\ Loadable(rec.response))
                    => /\ Lookup("a", rec.method) # NoHandler
                       /\ rec.outcome = Returned(HandlerBody(Lookup("a", rec.method),
                                                             rec.args, rec.kwargs).value))
    /\ [][(Ended("a") # {} /\ Len(bcasts') = Len(bcasts) + 1)
             => \A id \in Matching(broadcastSubject(bcasts'[Len(bcasts')].channel)) :
                    /\ Sub(id)'.pending # <<>>
                    /\ Loads(Sub(id)'.pending[Len(Sub(id)'.pending)].data)
                          = bcasts'[Len(bcasts')].data]_vars

\* C22's case: node a's call to its own method has returned the handler's
\* result, and a broadcast it made after that was handed to a subscriber.
WitC22 ==
    /\ \E i \in DOMAIN calls["a"] :
          /\ calls["a"][i].target = node_id("a")
          /\ calls["a"][i].outcome = Returned(calls["a"][i].args[1])
    /\ \E id \in SubIds : Sub(id).cb.kind = "wrapper" /\ Sub(id).got # <<>>

----------------------------------------------------------------------------
(* One subscription per method: properties under SpecReg *)

\* The active subscriptions node n holds for the method name.
ActiveFor(n, name) ==
    {i \in DOMAIN subscriptions[n] :
        /\ ActiveSub(n, subscriptions[n][i])
        /\ subscriptions[n][i].cb = [kind |-> "handler", name |-> name]}

\* C23: a connected node holds at most one active subscription for each
\* registered method name, and no request of a call is dispatched more than
\* once, whatever registrations (re-registrations while connected included)
\* came before.
CexC23 ==
    /\ \A n \in Nodes :
          is_connected(n) => \A name \in Registered(n) : Cardinality(ActiveFor(n, name)) <= 1
    /\ \A c \in CallIds : Cardinality(calls[c[1]][c[2]].inv) <= 1

----------------------------------------------------------------------------
(* The tracked subscriptions across connections: properties under SpecLife *)

\* C24: a node whose connection disconnect() has closed tracks no
\* subscription, and no subscription a node tracks was made on a connection
\* that an earlier disconnect() closed.
CexC24 ==
    \A n \in Nodes :
        /\ (nc[n] # 0 /\ ~is_connected(n)) => subscriptions[n] = <<>>
        /\ \A i \in DOMAIN subscriptions[n] : ~conns[n][subscriptions[n][i].conn].closed

\* C25: no step taken by a node that is connected gives it another
\* connection: its handle stays the one it has, no connection is opened
\* beside it, and every subscription the step adds is made on it.
CexC25 ==
    [][\A n \in Nodes :
          is_connected(n)
              => /\ nc'[n] = nc[n]
                 /\ Len(conns'[n]) = Len(conns[n])
                 /\ \A i \in DOMAIN subscriptions'[n] \ DOMAIN subscriptions[n] :
                        subscriptions'[n][i].conn = nc[n]]_vars

----------------------------------------------------------------------------
(* Dispatch while a handler is suspended: properties under SpecConc *)

\* C26: a request delivered to a node is never kept from being dispatched:
\* whenever an active method subscription has a request pending, the step
\* that starts handling it can be taken, whether or not a suspending handler
\* is pending for an earlier request.
CexC26 ==
    \A id \in SubIds :
        (Active(id) /\ Sub(id).cb.kind = "handler" /\ Sub(id).pending # <<>>)
            => ENABLED handler(id)

----------------------------------------------------------------------------
(* Interleaved registration: properties under SpecInter *)

\* C27: with register() running at the suspension points of connect() and
\* while requests are served, no connect() fails, no dispatch fails, and once
\* the connect() of a node has finished every name the node has registered
\* has exactly one active subscription.
CexC27 ==
    /\ \A n \in Nodes :
          /\ connecting[n].stage # "failed"
          /\ connecting[n].stage = "done"
                 => \A name \in Registered(n) : Cardinality(ActiveFor(n, name)) = 1
    /\ \A c \in CallIds :
          \A d \in calls[c[1]][c[2]].inv : d.h # NoHandler /\ ~d.ret.raised

----------------------------------------------------------------------------
(* Without a connection: properties under SpecClosed *)

\* C28: of a node that has no handle yet, or whose handle disconnect() has
\* closed, a call ends at once with an exception and sends no request, a
\* broadcast publishes nothing, a subscribe creates no subscription, and a
\* register changes the registry and nothing else.
PropC28 ==
    [][\A n \in Nodes :
          ~IsOpen(n, nc[n])
              => /\ \A c \in ClosedCalls :
                        (c[1] = n /\ call(c[1], c[2], c[3], c[4], c[5]))
                            => /\ calls'[n][Len(calls'[n])].outcome.kind = "raise"
                               /\ UNCHANGED <<subscriptions, wire, bcasts>>
                 /\ broadcast(n, <<"x">>, V1) => UNCHANGED <<subscriptions, wire, bcasts>>
                 /\ subscribe(n, <<"x">>) => UNCHANGED <<subscriptions, wire, bcasts>>
                 /\ \A r \in ClosedRegistrations :
                        (r[1] = n /\ register(r[1], r[2], r[3]))
                            => /\ Lookup(n, r[2])' = r[3]
                               /\ UNCHANGED <<subscriptions, wire, bcasts>>]_vars

\* C28's case: a node whose connection disconnect() has closed issued a call
\* that failed on the closed connection, and registered a method after the
\* disconnect that has no subscription.
WitC28 ==
    \E n \in Nodes :
        /\ nc[n] # 0
        /\ conns[n][nc[n]].closed
        /\ \E i \in DOMAIN calls[n] :
               calls[n][i].outcome = call_except(calls[n][i].target, calls[n][i].method,
                                                 ConnectionClosed)
        /\ \E name \in Registered(n) :
               \A k \in DOMAIN subscriptions[n] : subscriptions[n][k].cb.name # name

----------------------------------------------------------------------------
(* What traffic leaves alone: properties under SpecPeer *)

\* The subscriptions node n tracks, as handles: the connection, the subject
\* and the callback of each, and whether it has been stopped.
Tracked(n) ==
    [i \in DOMAIN subscriptions[n] |->
        [conn |-> subscriptions[n][i].conn, subject |-> subscriptions[n][i].subject,
         cb |-> subscriptions[n][i].cb, closed |-> subscriptions[n][i].closed]]

\* C29: a step that issues a call or a broadcast, serves a request, hands a
\* broadcast to its handler, or ends a call by its reply or its timeout
\* leaves the registry, the tracked subscriptions and the connection handle
\* of every node as they were.
PropC29 ==
    [][(\/ \E c \in CallInputs : call(c[1], c[2], c[3], c[4], c[5])
        \/ broadcast("a", <<"x">>, V1)
        \/ \E id \in SubIds : handler(id) \/ handler_resume(id) \/ wrapper(id)
        \/ \E w \in wire : deliver_reply(w)
        \/ \E c \in CallIds : timeout(c[1], c[2]))
           => /\ methods' = methods
              /\ nc' = nc
              /\ \A n \in Nodes : Tracked(n)' = Tracked(n)]_vars

\* C29's case: node a has served a call of node b, and node b's handler has
\* been given a broadcast of node a.
WitC29 ==
    /\ methods["a"] # <<>>
    /\ \E i \in DOMAIN calls["b"] :
          /\ calls["b"][i].outcome.kind = "return"
          /\ \E d \in calls["b"][i].inv : d.sub[1] = "a"
    /\ \E k \in DOMAIN subscriptions["b"] :
          subscriptions["b"][k].cb.kind = "wrapper" /\ subscriptions["b"][k].got # <<>>

----------------------------------------------------------------------------
(* Late replies: properties under SpecConc *)

\* C30: a call that has ended with the TimeoutError of call() keeps that
\* outcome and receives no response, and the step in which a reply to a
\* timed-out call is taken off the wire changes the outcome of no call.
PropC30 ==
    [][/\ \A c \in CallIds :
             c[2] \in TimedOut(c[1])
                 => /\ calls'[c[1]][c[2]].outcome = calls[c[1]][c[2]].outcome
                    /\ calls'[c[1]][c[2]].response = NoData
       /\ \A w \in wire \ wire' :
             (w.req \in CallIds /\ w.req[2] \in TimedOut(w.req[1]))
                 => \A c \in CallIds :
                        calls'[c[1]][c[2]].outcome = calls[c[1]][c[2]].outcome]_vars

\* C30's case: the reply to a call that had timed out was published and has
\* been taken off the wire, the call is still timed out, and another call of
\* the same node has returned its own result.
WitC30 ==
    \E n \in Nodes : \E i, j \in DOMAIN calls[n] :
        /\ i # j
        /\ i \in TimedOut(n)
        /\ \E d \in calls[n][i].inv : d.replied
        /\ \A w \in wire : w.to # calls[n][i].inbox
        /\ calls[n][j].outcome = Returned(calls[n][j].args[1])

----------------------------------------------------------------------------
(* Retried functions: properties under SpecRetry *)

\* C31: in a call of the wrapper that retry_decorator(max_retries=n) made,
\* n >= 0, the function has been invoked at most n + 1 times; every attempt
\* that was followed by another one had failed, so a successful attempt is
\* the last; a wrapper that has returned returns the value of that attempt;
\* and a wrapper that has left after n + 1 failed attempts raises the
\* exception of the last of them.
InvC31 ==
    (retry.stage # "idle" /\ retry.max_retries >= 0) =>
        LET tried == retry.tried
            n == retry.max_retries
        IN  /\ Len(tried) <= n + 1
            /\ \A i \in 1 .. Len(tried) - 1 : tried[i].kind = "raise"
            /\ retry.stage = "returned" =>
                   /\ tried # <<>>
                   /\ tried[Len(tried)].kind = "return"
                   /\ retry.result = [kind |-> "return", value |-> tried[Len(tried)].value]
            /\ retry.stage \in {"loop", "sleeping"} =>
                   \A i \in 1 .. Len(tried) : tried[i].kind = "raise"
            /\ (/\ retry.stage = "raised"
                /\ Len(tried) = n + 1
                /\ \A i \in 1 .. Len(tried) : tried[i].kind = "raise") =>
                   retry.result = [kind |-> "raise", exc |-> tried[Len(tried)].exc]

\* C31's case: a wrapper with max_retries >= 1 has been called, every one of
\* its max_retries + 1 attempts failed, the first and the last with
\* different exceptions, and it raised the last one.
WitC31 ==
    /\ retry.stage = "raised"
    /\ retry.max_retries >= 1
    /\ Len(retry.tried) = retry.max_retries + 1
    /\ \A i \in 1 .. Len(retry.tried) : retry.tried[i].kind = "raise"
    /\ retry.tried[1].exc # retry.tried[Len(retry.tried)].exc
    /\ retry.result = [kind |-> "raise", exc |-> retry.last_exception]

=============================================================================
